---------------------------- MODULE Spec2Model ----------------------------
(***************************************************************************)
(* ScholarGuard (plagiarism-analyst): the application state controller of  *)
(* App.tsx with its result view, the reference store of ReferenceList.tsx  *)
(* and the analysis client of geminiService.ts, as one state machine.      *)
(*                                                                         *)
(* Text is a sequence of one-character strings, so that trim, indexOf,     *)
(* substring and the regular-expression replacements are computed          *)
(* character by character, as the JavaScript built-ins compute them.       *)
(* An element longer than one character ("Sure!", "sorry") stands for a    *)
(* run of characters none of which is a brace, a backtick, a quote, white  *)
(* space or a letter of "json".                                            *)
(*                                                                         *)
(* A nullable value (string | null, AnalysisResult | null) is the empty    *)
(* sequence for null and a one-element sequence for a value.               *)
(***************************************************************************)
EXTENDS Integers, Sequences, FiniteSets, TLC

VARIABLES
    documentText,      \* App: useState('')
    documentType,      \* App: useState('Research Paper')
    references,        \* App: useState<ReferenceItem[]>([])
    isAnalyzing,       \* App: useState(false)
    result,            \* App: useState<AnalysisResult | null>(null)
    error,             \* App: useState<string | null>(null)
    isProcessingFile,  \* App: useState(false)
    useWebSearch,      \* App: useState(false)
    processingId,      \* ReferenceList: useState<string | null>(null)
    apiKey,            \* process.env.API_KEY is configured
    calls,             \* analyzePlagiarism calls awaiting their outcome
    docUploads,        \* App.handleFileUpload runs awaiting the file's text
    refUploads,        \* ReferenceList.handleFileUpload runs awaiting the text
    view,              \* what the result view renders, null in the input view
    fileInputValue,    \* fileInputRef.current.value: <<>> or the chosen file
    last               \* the handler that ran last, with its arguments

vars == <<documentText, documentType, references, isAnalyzing, result, error,
          isProcessingFile, useWebSearch, processingId, apiKey, calls,
          docUploads, refUploads, view, fileInputValue, last>>

null == <<>>
Some(v) == <<v>>

-----------------------------------------------------------------------------
(* Bounds of the model.                                                    *)

\* the longest reference list the user builds
MaxRefs == 2
\* the most file reads the model lets be pending at once
MaxUploads == 2
\* the most analyzePlagiarism calls the model lets be pending at once
MaxCalls == 2

-----------------------------------------------------------------------------
(* JavaScript string built-ins, on sequences of characters.                *)

IsWhiteSpace(c) == c \in {" ", "\n", "\t"}

RECURSIVE trimStart(_)
trimStart(s) ==
    IF s = <<>> THEN s
    ELSE IF IsWhiteSpace(Head(s)) THEN trimStart(Tail(s)) ELSE s

RECURSIVE trimEnd(_)
trimEnd(s) ==
    IF s = <<>> THEN s
    ELSE IF IsWhiteSpace(s[Len(s)]) THEN trimEnd(SubSeq(s, 1, Len(s) - 1)) ELSE s

trim(s) == trimEnd(trimStart(s))

\* Number.prototype.toString for an integer n >= 0: its decimal digits
Digit(d) == CASE d = 0 -> "0" [] d = 1 -> "1" [] d = 2 -> "2" [] d = 3 -> "3"
              [] d = 4 -> "4" [] d = 5 -> "5" [] d = 6 -> "6" [] d = 7 -> "7"
              [] d = 8 -> "8" [] d = 9 -> "9"

RECURSIVE toString(_)
toString(n) ==
    IF n < 10 THEN <<Digit(n)>> ELSE toString(n \div 10) \o <<Digit(n % 10)>>

\* String.prototype.padStart with a one-character fill
RECURSIVE padStart(_, _, _)
padStart(s, targetLength, fill) ==
    IF Len(s) >= targetLength THEN s ELSE padStart(<<fill>> \o s, targetLength, fill)

\* String.prototype.indexOf / lastIndexOf for one character: 0-based, -1 if absent
indexOf(s, c) ==
    IF \E i \in 1..Len(s) : s[i] = c
    THEN (CHOOSE i \in 1..Len(s) : s[i] = c /\ \A j \in 1..(i - 1) : s[j] # c) - 1
    ELSE -1

lastIndexOf(s, c) ==
    IF \E i \in 1..Len(s) : s[i] = c
    THEN (CHOOSE i \in 1..Len(s) : s[i] = c /\ \A j \in (i + 1)..Len(s) : s[j] # c) - 1
    ELSE -1

\* String.prototype.substring(start, end) for 0 <= start <= end <= length
substring(s, start, end) == SubSeq(s, start + 1, end)


-----------------------------------------------------------------------------
(* utils/pdfUtils.ts and File.text(): the text of an uploaded file.        *)
(* A file is [type, readable, pages] (pages: one sequence of text items    *)
(* per page) or [type, readable, content].                                 *)

Ok(v) == [ok |-> TRUE, value |-> v]
Throw(m) == [ok |-> FALSE, message |-> m]

RECURSIVE join(_, _)
join(items, sep) ==
    IF items = <<>> THEN <<>>
    ELSE IF Len(items) = 1 THEN <<items[1]>>
    ELSE <<items[1]>> \o sep \o join(Tail(items), sep)

RECURSIVE pagesText(_)
pagesText(pages) ==
    IF pages = <<>> THEN <<>>
    ELSE join(Head(pages), <<" ">>) \o <<"\n", "\n">> \o pagesText(Tail(pages))

extractTextFromPdf(file) ==
    IF file.readable THEN Ok(pagesText(file.pages))
    ELSE Throw("Failed to extract text from PDF. Please ensure it is a valid text-based PDF.")

\* the try block of both upload handlers: the text, or what the read throws
readFile(file) ==
    IF file.type = "application/pdf" THEN extractTextFromPdf(file)
    ELSE IF file.readable THEN Ok(file.content) ELSE Throw("")

-----------------------------------------------------------------------------
(* components/ReferenceList.tsx: the reference store.                      *)

REF == <<"R", "E", "F", "-">>

\* the id numbered from the current count, not the count plus one
newRef_zeroBased(refs) ==
    [id |-> REF \o padStart(toString(Len(refs)), 3, "0"),
     sourceType |-> "paper",
     text |-> <<>>,
     isExpanded |-> TRUE]

newRef(refs) ==
    [id |-> REF \o padStart(toString(Len(refs) + 1), 3, "0"),
     sourceType |-> "paper",
     text |-> <<>>,
     isExpanded |-> TRUE]

\* the lists the three store operations hand to onUpdate
addReferenceList(refs) == Append(refs, newRef(refs))

\* the record rebuilt without the spread of its other fields
updateReferenceList_noSpread(refs, index, field, value) ==
    [refs EXCEPT ![index] =
        [[id |-> <<>>, sourceType |-> "paper", text |-> <<>>, isExpanded |-> FALSE]
            EXCEPT ![field] = value]]

updateReferenceList(refs, index, field, value) ==
    [refs EXCEPT ![index] = [@ EXCEPT ![field] = value]]

removeReferenceList(refs, index) ==
    SubSeq(refs, 1, index - 1) \o SubSeq(refs, index + 1, Len(refs))

\* <main>{!result ? (input view) : (result view)}: which controls exist
\* of the values JSON.parse gives here, null, the empty string and 0 are
\* falsy
truthy(r) ==
    /\ r # null
    /\ ~(r[1].kind = "string" /\ r[1].text = <<"\"", "\"">>)
    /\ ~(r[1].kind = "number" /\ r[1].text = <<"0">>)
InputView == ~truthy(result)
ResultView == truthy(result)

\* a reference's id, type and text inputs and its upload button are rendered
\* only while the reference is expanded
RefBodyShown(index) == references[index].isExpanded

\* the per-reference upload button: disabled={processingId === ref.id}
RefUploadEnabled(index) == processingId # Some(references[index].id)

addReference ==
    /\ InputView
    /\ Len(references) < MaxRefs
    /\ references' = addReferenceList(references)
    /\ last' = [op |-> "addReference"]
    /\ UNCHANGED <<documentText, documentType, isAnalyzing, result, error,
                   isProcessingFile, useWebSearch, processingId, apiKey, calls,
                   docUploads, refUploads,
                   view, fileInputValue>>

updateReference(index, field, value) ==
    /\ InputView
    /\ index \in DOMAIN references
    /\ RefBodyShown(index)
    /\ references' = updateReferenceList(references, index, field, value)
    /\ last' = [op |-> "updateReference", index |-> index, field |-> field,
                value |-> value]
    /\ UNCHANGED <<documentText, documentType, isAnalyzing, result, error,
                   isProcessingFile, useWebSearch, processingId, apiKey, calls,
                   docUploads, refUploads,
                   view, fileInputValue>>

removeReference(index) ==
    /\ InputView
    /\ index \in DOMAIN references
    /\ references' = removeReferenceList(references, index)
    /\ last' = [op |-> "removeReference", index |-> index]
    /\ UNCHANGED <<documentText, documentType, isAnalyzing, result, error,
                   isProcessingFile, useWebSearch, processingId, apiKey, calls,
                   docUploads, refUploads,
                   view, fileInputValue>>

toggleExpand(index) ==
    /\ InputView
    /\ index \in DOMAIN references
    /\ references' = updateReferenceList(references, index, "isExpanded",
                                         ~references[index].isExpanded)
    /\ last' = [op |-> "toggleExpand", index |-> index]
    /\ UNCHANGED <<documentText, documentType, isAnalyzing, result, error,
                   isProcessingFile, useWebSearch, processingId, apiKey, calls,
                   docUploads, refUploads,
                   view, fileInputValue>>

\* ReferenceList.handleFileUpload up to its await: the run keeps the index,
\* the id and the references of the render it was started from. live: the
\* ReferenceList instance that started it is still mounted.
refHandleFileUpload(index, file) ==
    /\ InputView
    /\ index \in DOMAIN references
    /\ RefBodyShown(index)
    /\ RefUploadEnabled(index)
    /\ Len(docUploads) + Len(refUploads) < MaxUploads
    /\ processingId' = Some(references[index].id)
    /\ refUploads' = Append(refUploads,
                            [index |-> index, refId |-> references[index].id,
                             references |-> references, file |-> file,
                             live |-> TRUE])
    /\ last' = [op |-> "refHandleFileUpload", index |-> index]
    /\ UNCHANGED <<documentText, documentType, references, isAnalyzing, result,
                   error, isProcessingFile, useWebSearch, apiKey, calls,
                   docUploads,
                   view, fileInputValue>>

Without(seq, k) == SubSeq(seq, 1, k - 1) \o SubSeq(seq, k + 1, Len(seq))

\* ReferenceList.handleFileUpload after its await: try / catch / finally
refHandleFileUploadResume(k) ==
    /\ k \in DOMAIN refUploads
    /\ LET u == refUploads[k]
           read == readFile(u.file)
       IN /\ references' =
                 IF read.ok
                 THEN updateReferenceList(u.references, u.index, "text", read.value)
                 ELSE references
          /\ processingId' = IF u.live THEN null ELSE processingId
          /\ last' = [op |-> "refHandleFileUploadResume", index |-> u.index,
                      ok |-> read.ok]
    /\ refUploads' = Without(refUploads, k)
    /\ UNCHANGED <<documentText, documentType, isAnalyzing, result, error,
                   isProcessingFile, useWebSearch, apiKey, calls, docUploads,
                   view, fileInputValue>>

-----------------------------------------------------------------------------
(* services/geminiService.ts: the analysis client.                         *)

\* a config that asks for JSON whether or not it enables the search tool
buildConfig_alwaysJson(enableWebSearch) ==
    [tools |-> IF enableWebSearch THEN Some("googleSearch") ELSE null,
     responseMimeType |-> Some("application/json")]

\* config: { tools: [{ googleSearch: {} }] } or { responseMimeType: ... }
buildConfig(enableWebSearch) ==
    IF enableWebSearch
    THEN [tools |-> Some("googleSearch"), responseMimeType |-> null]
    ELSE [tools |-> null, responseMimeType |-> Some("application/json")]

toLowerCase(c) ==
    CASE c = "J" -> "j" [] c = "S" -> "s" [] c = "O" -> "o" [] c = "N" -> "n"
      [] OTHER -> c

lower(s) == [i \in 1..Len(s) |-> toLowerCase(s[i])]

\* String.prototype.replace(/pat/g, '') and, with ignoreCase, /pat/gi: the
\* leftmost matches, none overlapping, are removed in one pass
RECURSIVE removeAll(_, _, _)
removeAll(s, pat, ignoreCase) ==
    IF Len(s) < Len(pat) THEN s
    ELSE LET head == SubSeq(s, 1, Len(pat))
             hit == IF ignoreCase THEN lower(head) = lower(pat) ELSE head = pat
         IN IF hit THEN removeAll(SubSeq(s, Len(pat) + 1, Len(s)), pat, ignoreCase)
            ELSE <<Head(s)>> \o removeAll(Tail(s), pat, ignoreCase)

\* the backtick character, which a TLA+ string cannot hold, is written ^
TICK == "^"
FenceJson == <<TICK, TICK, TICK, "j", "s", "o", "n">>
Fence == <<TICK, TICK, TICK>>

\* text.replace(/```json/gi, '').replace(/```/g, '')
stripFences(text) == removeAll(removeAll(text, FenceJson, TRUE), Fence, FALSE)

\* the slice ended at the first '}' instead of the last
sliceObject_firstClose(text) ==
    LET firstOpen == indexOf(text, "{")
        lastClose == indexOf(text, "}")
    IN IF firstOpen # -1 /\ lastClose # -1 /\ lastClose > firstOpen
       THEN substring(text, firstOpen, lastClose + 1)
       ELSE text

\* the slice from the first '{' to the last '}', when there is one
sliceObject(text) ==
    LET firstOpen == indexOf(text, "{")
        lastClose == lastIndexOf(text, "}")
    IN IF firstOpen # -1 /\ lastClose # -1 /\ lastClose > firstOpen
       THEN substring(text, firstOpen, lastClose + 1)
       ELSE text

cleanJsonText(text) == sliceObject(stripFences(text))

\* JSON.parse, for the JSON texts this alphabet writes:
\*   value  ::= object | string | number | null, white space around it
\*   object ::= { } | { member , ... , member }     member ::= KEY value
\*   string ::= " characters other than " "
\*   number ::= 0 | a digit other than 0, then digits
\* where KEY is the one property name this alphabet writes, with its colon.
KEY == "\"overall_plagiarism_risk\":"
QUOTE == "\""
Digits == {Digit(d) : d \in 0..9}

RECURSIVE skipWhiteSpace(_, _)
skipWhiteSpace(s, i) ==
    IF i <= Len(s) /\ IsWhiteSpace(s[i]) THEN skipWhiteSpace(s, i + 1) ELSE i

\* each parser returns the position after what it read, or 0 for a SyntaxError
RECURSIVE parseString(_, _)
parseString(s, i) ==
    IF i > Len(s) THEN 0 ELSE IF s[i] = QUOTE THEN i + 1 ELSE parseString(s, i + 1)

RECURSIVE skipDigits(_, _)
skipDigits(s, i) ==
    IF i <= Len(s) /\ s[i] \in Digits THEN skipDigits(s, i + 1) ELSE i

parseNumber(s, i) == IF s[i] = "0" THEN i + 1 ELSE skipDigits(s, i + 1)

RECURSIVE parseValue(_, _)
RECURSIVE parseMembers(_, _)
parseValue(s, from) ==
    LET i == skipWhiteSpace(s, from)
    IN IF i > Len(s) THEN 0
       ELSE IF s[i] = "{"
            THEN LET j == skipWhiteSpace(s, i + 1)
                 IN IF j <= Len(s) /\ s[j] = "}" THEN j + 1 ELSE parseMembers(s, j)
       ELSE IF s[i] = QUOTE THEN parseString(s, i + 1)
       ELSE IF s[i] \in Digits THEN parseNumber(s, i)
       ELSE IF i + 3 <= Len(s) /\ SubSeq(s, i, i + 3) = <<"n", "u", "l", "l">>
            THEN i + 4
       ELSE 0

parseMembers(s, from) ==
    LET i == skipWhiteSpace(s, from)
    IN IF i > Len(s) \/ s[i] # KEY THEN 0
       ELSE LET j == parseValue(s, i + 1)
                k == skipWhiteSpace(s, j)
            IN IF j = 0 \/ k > Len(s) THEN 0
               ELSE IF s[k] = "}" THEN k + 1
               ELSE IF s[k] = "," THEN parseMembers(s, k + 1)
               ELSE 0

\* the value read: its kind and its text; two texts denote one value here
\* only if they are equal once trimmed
valueOf(text) ==
    LET t == trim(text)
    IN [kind |-> CASE t[1] = "{" -> "object"
                   [] t[1] = QUOTE -> "string"
                   [] t[1] = "n" -> "null"
                   [] OTHER -> "number",
        text |-> t]

JSONparse(text) ==
    LET end == parseValue(text, 1)
    IN IF end = 0 \/ skipWhiteSpace(text, end) <= Len(text)
       THEN Throw("SyntaxError")
       ELSE Ok(valueOf(text))

\* a grounding chunk is [uri, title]; "" is what JavaScript takes as absent
\* (undefined, or the empty string): c.web?.uri and c.web.title || c.web.uri
webSourcesOf(chunks) ==
    LET kept == SelectSeq(chunks, LAMBDA c : c.uri # "")
    IN [i \in 1..Len(kept) |->
           [uri |-> kept[i].uri,
            title |-> IF kept[i].title # "" THEN kept[i].title ELSE kept[i].uri]]

\* Map.prototype.set on a map kept as its entries in insertion order: a key
\* already there keeps its place and takes the new value
mapSet(entries, key, value) ==
    IF \E i \in 1..Len(entries) : entries[i].key = key
    THEN [i \in 1..Len(entries) |->
             IF entries[i].key = key THEN [key |-> key, value |-> value]
             ELSE entries[i]]
    ELSE Append(entries, [key |-> key, value |-> value])

\* new Map(pairs)
RECURSIVE newMap(_, _)
newMap(entries, pairs) ==
    IF pairs = <<>> THEN entries
    ELSE newMap(mapSet(entries, Head(pairs).key, Head(pairs).value), Tail(pairs))

\* Array.from(new Map(webSources.map(s => [s.uri, s])).values())
uniqueSources(webSources) ==
    LET pairs == [i \in 1..Len(webSources) |->
                     [key |-> webSources[i].uri, value |-> webSources[i]]]
        map == newMap(<<>>, pairs)
    IN [i \in 1..Len(map) |-> map[i].value]

\* analyzePlagiarism from the model's reply on: what it returns or throws.
\* A reply is [kind |-> "response", text, chunks] (text and chunks nullable)
\* or [kind |-> "error", message], generateContent rejecting.
analyzeReply(enableWebSearch, reply) ==
    IF reply.kind = "error" THEN Throw(reply.message)
    ELSE IF reply.text = null \/ reply.text = Some(<<>>)
    THEN Throw("No response generated from AI")
    ELSE LET parsed == JSONparse(cleanJsonText(reply.text[1]))
         IN IF ~parsed.ok
            THEN Throw("Failed to parse analysis results. The AI response was not valid JSON.")
            ELSE IF enableWebSearch /\ reply.chunks # null
            THEN IF parsed.value.kind = "object"
                 THEN Ok([kind |-> "object", text |-> parsed.value.text,
                          webSources |-> uniqueSources(webSourcesOf(reply.chunks[1]))])
                 \* result.webSources = ... on null or on a primitive, in a module
                 ELSE Throw("TypeError")
            ELSE Ok(parsed.value)

-----------------------------------------------------------------------------
(* App.tsx, AnalysisView: the elements coloured by the risk score.         *)

\* a JavaScript number: <<n>>, or NaN
NaN == <<>>
undefined == [kind |-> "undefined", text |-> <<>>]

digitValue(c) == CHOOSE d \in 0..9 : Digit(d) = c

RECURSIVE numberOf(_)
numberOf(digits) ==
    IF digits = <<>> THEN 0
    ELSE 10 * numberOf(SubSeq(digits, 1, Len(digits) - 1))
           + digitValue(digits[Len(digits)])

\* where the value of an object's last member starts, 0 in an empty object:
\* of members with one key the last gives the property its value
RECURSIVE lastMember(_, _, _)
lastMember(s, from, sofar) ==
    LET i == skipWhiteSpace(s, from)
    IN IF s[i] # KEY THEN sofar
       ELSE LET k == skipWhiteSpace(s, parseValue(s, i + 1))
            IN IF s[k] = "," THEN lastMember(s, k + 1, i + 1) ELSE i + 1

\* result.overall_plagiarism_risk
overall_plagiarism_risk(value) ==
    IF value.kind # "object" THEN undefined
    ELSE LET start == lastMember(value.text, 2, 0)
         IN IF start = 0 THEN undefined
            ELSE valueOf(SubSeq(value.text, start,
                                parseValue(value.text, start) - 1))

\* the number that < compares: null is 0, a string is the number it writes
\* (0 when blank), an object and undefined are NaN
ToNumber(value) ==
    CASE value.kind = "number" -> <<numberOf(value.text)>>
      [] value.kind = "null" -> <<0>>
      [] value.kind = "string" ->
            LET content == trim(SubSeq(value.text, 2, Len(value.text) - 1))
            IN IF \A i \in DOMAIN content : content[i] \in Digits
               THEN <<numberOf(content)>> ELSE NaN
      [] OTHER -> NaN

\* score < bound; false when the score is NaN
lessThan(score, bound) ==
    LET n == ToNumber(score) IN n # NaN /\ n[1] < bound

\* a score colour whose first tier includes 20
getRiskColor_through20(score) ==
    IF lessThan(score, 21) THEN "text-green-600"
    ELSE IF lessThan(score, 50) THEN "text-yellow-600"
    ELSE IF lessThan(score, 80) THEN "text-orange-600"
    ELSE "text-red-600"

getRiskColor(score) ==
    IF lessThan(score, 20) THEN "text-green-600"
    ELSE IF lessThan(score, 50) THEN "text-yellow-600"
    ELSE IF lessThan(score, 80) THEN "text-orange-600"
    ELSE "text-red-600"

getRiskBg(score) ==
    IF lessThan(score, 20) THEN "bg-green-50 border-green-200"
    ELSE IF lessThan(score, 50) THEN "bg-yellow-50 border-yellow-200"
    ELSE IF lessThan(score, 80) THEN "bg-orange-50 border-orange-200"
    ELSE "bg-red-50 border-red-200"

riskColorHex(risk) ==
    IF lessThan(risk, 50) THEN "#22c55e"
    ELSE IF lessThan(risk, 80) THEN "#f97316"
    ELSE "#ef4444"

\* the icon beside the category and its colour class
statusIcon(risk) ==
    IF lessThan(risk, 20)
    THEN [icon |-> "CheckCircle", className |-> "text-green-600"]
    ELSE IF lessThan(risk, 80)
    THEN [icon |-> "AlertTriangle", className |-> "text-orange-600"]
    ELSE [icon |-> "AlertOctagon", className |-> "text-red-600"]

\* what <AnalysisView result={result} /> renders from the risk score
AnalysisView(value) ==
    LET risk == overall_plagiarism_risk(value)
    IN [card |-> getRiskBg(risk),
        gaugeFill |-> riskColorHex(risk),
        score |-> getRiskColor(risk),
        status |-> statusIcon(risk)]

\* {!result ? (input view) : <AnalysisView result={result} />}
render(r) == IF truthy(r) THEN Some(AnalysisView(r[1])) ELSE null

-----------------------------------------------------------------------------
(* App.tsx: the application state controller.                              *)

\* the emptiness test without trim()
documentMissing_noTrim(text) == text = <<>>

\* if (!documentText.trim())
documentMissing(text) == trim(text) = <<>>

\* some(r => r.text) without trim()
hasReferences_noTrim(refs) ==
    Len(refs) > 0 /\ \E i \in 1..Len(refs) : refs[i].text # <<>>

\* references.length > 0 && references.some(r => r.text.trim())
hasReferences(refs) ==
    Len(refs) > 0 /\ \E i \in 1..Len(refs) : trim(refs[i].text) # <<>>

\* the analyze button never disabled
AnalyzeEnabled_always == TRUE

\* the analyze button: disabled={isAnalyzing}
AnalyzeEnabled == ~isAnalyzing

\* the document upload button: disabled={isProcessingFile}
DocUploadEnabled == ~isProcessingFile

setDocumentText(value) ==
    /\ InputView
    /\ documentText' = value
    /\ last' = [op |-> "setDocumentText"]
    /\ UNCHANGED <<documentType, references, isAnalyzing, result, error,
                   isProcessingFile, useWebSearch, processingId, apiKey, calls,
                   docUploads, refUploads,
                   view, fileInputValue>>

setDocumentType(value) ==
    /\ InputView
    /\ documentType' = value
    /\ last' = [op |-> "setDocumentType"]
    /\ UNCHANGED <<documentText, references, isAnalyzing, result, error,
                   isProcessingFile, useWebSearch, processingId, apiKey, calls,
                   docUploads, refUploads,
                   view, fileInputValue>>

setUseWebSearch(checked) ==
    /\ InputView
    /\ useWebSearch' = checked
    /\ last' = [op |-> "setUseWebSearch"]
    /\ UNCHANGED <<documentText, documentType, references, isAnalyzing, result,
                   error, isProcessingFile, processingId, apiKey, calls,
                   docUploads, refUploads,
                   view, fileInputValue>>

\* handleAnalyze up to its await. The pending call keeps its arguments and
\* the generateContent request (its config), or null when getClient threw
\* and the promise is already rejected.
handleAnalyze ==
    /\ InputView
    /\ AnalyzeEnabled
    /\ Len(calls) < MaxCalls
    /\ IF documentMissing(documentText)
       THEN /\ error' = Some("Please enter the document text.")
            /\ UNCHANGED <<isAnalyzing, result, calls, view>>
       ELSE IF ~hasReferences(references) /\ ~useWebSearch
       THEN /\ error' = Some("Please add at least one reference text OR enable Web Search.")
            /\ UNCHANGED <<isAnalyzing, result, calls, view>>
       ELSE /\ isAnalyzing' = TRUE
            /\ error' = null
            /\ result' = null
            /\ view' = render(result')
            /\ calls' = Append(calls,
                   [documentText |-> documentText,
                    enableWebSearch |-> useWebSearch,
                    request |-> IF apiKey THEN Some(buildConfig(useWebSearch))
                                ELSE null])
    /\ last' = [op |-> "handleAnalyze"]
    /\ UNCHANGED <<documentText, documentType, references, isProcessingFile,
                   useWebSearch, processingId, apiKey, docUploads, refUploads,
                   fileInputValue>>

\* a catch that stores the thrown message as it is
analysisErrorMessage_noFallback(message) == message

\* setError(err.message || "An unexpected error occurred during analysis.")
analysisErrorMessage(message) ==
    IF message # "" THEN message
    ELSE "An unexpected error occurred during analysis."

\* handleAnalyze after its await: try / catch / finally. A result that is
\* shown unmounts the input view, with the ReferenceList and the file input
\* in it, and renders the result view.
handleAnalyzeResume(k, reply) ==
    /\ k \in DOMAIN calls
    /\ LET call == calls[k]
           outcome == IF call.request = null THEN Throw("API Key is missing")
                      ELSE analyzeReply(call.enableWebSearch, reply)
           data == IF outcome.ok /\ outcome.value.kind # "null"
                   THEN Some(outcome.value) ELSE null
       IN /\ result' = IF outcome.ok THEN data ELSE result
          /\ error' = IF outcome.ok THEN error
                      ELSE Some(analysisErrorMessage(outcome.message))
          /\ last' = [op |-> "handleAnalyzeResume", call |-> call,
                      reply |-> reply, ok |-> outcome.ok]
    /\ isAnalyzing' = FALSE
    /\ calls' = Without(calls, k)
    /\ view' = render(result')
    /\ IF truthy(result')
       THEN /\ processingId' = null
            /\ refUploads' = [i \in 1..Len(refUploads) |->
                                 [refUploads[i] EXCEPT !.live = FALSE]]
            /\ fileInputValue' = <<>>
       ELSE UNCHANGED <<processingId, refUploads, fileInputValue>>
    /\ UNCHANGED <<documentText, documentType, references, isProcessingFile,
                   useWebSearch, apiKey, docUploads>>

\* a reset that also clears the inputs
handleReset_clearsInputs ==
    /\ ResultView
    /\ result' = null
    /\ view' = render(result')
    /\ error' = null
    /\ documentText' = <<>>
    /\ references' = <<>>
    /\ last' = [op |-> "handleReset"]
    /\ UNCHANGED <<documentType, isAnalyzing, isProcessingFile, useWebSearch,
                   processingId, apiKey, calls, docUploads, refUploads,
                   fileInputValue>>

handleReset ==
    /\ ResultView
    /\ result' = null
    /\ view' = render(result')
    /\ error' = null
    /\ last' = [op |-> "handleReset"]
    /\ UNCHANGED <<documentText, documentType, references, isAnalyzing,
                   isProcessingFile, useWebSearch, processingId, apiKey, calls,
                   docUploads, refUploads, fileInputValue>>

\* a finally that leaves the file input as it is
resetFileInput_keep(mounted, value) == value

\* if (fileInputRef.current) fileInputRef.current.value = ''
resetFileInput(mounted, value) == IF mounted THEN <<>> ELSE value

\* App.handleFileUpload up to its await. The input fires onChange when the
\* file chosen is not the one its value already names.
handleFileUpload(file) ==
    /\ InputView
    /\ DocUploadEnabled
    /\ fileInputValue # Some(file)
    /\ Len(docUploads) + Len(refUploads) < MaxUploads
    /\ fileInputValue' = Some(file)
    /\ isProcessingFile' = TRUE
    /\ error' = null
    /\ docUploads' = Append(docUploads, file)
    /\ last' = [op |-> "handleFileUpload", file |-> file]
    /\ UNCHANGED <<documentText, documentType, references, isAnalyzing, result,
                   useWebSearch, processingId, apiKey, calls, refUploads, view>>

\* App.handleFileUpload after its await: try / catch / finally
handleFileUploadResume(k) ==
    /\ k \in DOMAIN docUploads
    /\ LET read == readFile(docUploads[k])
       IN /\ documentText' = IF read.ok THEN read.value ELSE documentText
          /\ error' = IF read.ok THEN error
                      ELSE IF read.message # "" THEN Some(read.message)
                      ELSE Some("Failed to read file.")
          /\ last' = [op |-> "handleFileUploadResume", file |-> docUploads[k],
                      ok |-> read.ok]
    /\ isProcessingFile' = FALSE
    /\ fileInputValue' = resetFileInput(InputView, fileInputValue)
    /\ docUploads' = Without(docUploads, k)
    /\ UNCHANGED <<documentType, references, isAnalyzing, result, useWebSearch,
                   processingId, apiKey, calls, refUploads, view>>

-----------------------------------------------------------------------------
(* What the user and the model supply.                                     *)

TypedTexts == {<<>>, <<" ">>, <<"a">>}
DocumentTypes == {"Research Paper", "Thesis"}
ReferenceTexts == {<<" ">>, <<"a">>}

TextFile == [type |-> "text/plain", readable |-> TRUE, content |-> <<"t">>]
PdfFile == [type |-> "application/pdf", readable |-> TRUE,
            pages |-> << <<"p", "q">> >>]
CorruptPdf == [type |-> "application/pdf", readable |-> FALSE, pages |-> <<>>]
Files == {TextFile, CorruptPdf}

ObjectText == <<"{", KEY, "7", "}">>
Reply(text, chunks) == [kind |-> "response", text |-> text, chunks |-> chunks]
Rejected(message) == [kind |-> "error", message |-> message]
Replies ==
    {Reply(Some(ObjectText), null),
     Reply(Some(ObjectText), Some(<<[uri |-> "a", title |-> "A"]>>)),
     Reply(Some(<<"sorry">>), null),
     Reply(null, null),
     Rejected("Failed to fetch"),
     Rejected("")}

Init ==
    /\ documentText = <<>>
    /\ documentType = "Research Paper"
    /\ references = <<>>
    /\ isAnalyzing = FALSE
    /\ result = null
    /\ error = null
    /\ isProcessingFile = FALSE
    /\ useWebSearch = FALSE
    /\ processingId = null
    /\ apiKey \in BOOLEAN
    /\ calls = <<>>
    /\ docUploads = <<>>
    /\ refUploads = <<>>
    /\ view = null
    /\ fileInputValue = <<>>
    /\ last = [op |-> "init"]

\* The controller: every action of App.tsx, with the reference list edited
\* by add and by typing a reference's text.
Next ==
    \/ \E v \in TypedTexts : setDocumentText(v)
    \/ \E v \in DocumentTypes : setDocumentType(v)
    \/ \E b \in BOOLEAN : setUseWebSearch(b)
    \/ addReference
    \/ \E i \in 1..MaxRefs, v \in ReferenceTexts : updateReference(i, "text", v)
    \/ handleAnalyze
    \/ \E k \in 1..MaxCalls, reply \in Replies : handleAnalyzeResume(k, reply)
    \/ handleReset
    \/ \E file \in Files : handleFileUpload(file)
    \/ \E k \in 1..MaxUploads : handleFileUploadResume(k)

Spec == Init /\ [][Next]_vars

\* File uploads: the document's and the references', with the edits the user
\* can make while they are pending.
NextUploads ==
    \/ \E v \in {<<"a">>} : setDocumentText(v)
    \/ addReference
    \/ \E i \in 1..MaxRefs, v \in {<<"a">>} : updateReference(i, "text", v)
    \/ \E file \in {PdfFile} : handleFileUpload(file)
    \/ \E k \in 1..MaxUploads : handleFileUploadResume(k)
    \/ \E i \in 1..MaxRefs, file \in Files : refHandleFileUpload(i, file)
    \/ \E k \in 1..MaxUploads : refHandleFileUploadResume(k)

SpecUploads == Init /\ [][NextUploads]_vars

\* The reference store alone: every field of a reference edited.
FieldValues(field) ==
    CASE field = "id" -> {<<"X">>}
      [] field = "sourceType" -> {"book"}
      [] field = "text" -> {<<"a">>}

NextStore ==
    \/ addReference
    \/ \E i \in 1..MaxRefs, field \in {"id", "sourceType", "text"} :
           \E v \in FieldValues(field) : updateReference(i, field, v)
    \/ \E i \in 1..MaxRefs : removeReference(i)
    \/ \E i \in 1..MaxRefs : toggleExpand(i)

SpecStore == Init /\ [][NextStore]_vars

\* The analysis client on the replies the model can give: JSON wrapped in
\* code fences and prose, and grounding chunks.
MaxChunks == 3

Leads == {<<>>, <<"Sure!", " ">>, <<"see", "{", "x", "}", ":">>, <<TICK>>}
OpenFences == {<<>>, Fence, FenceJson \o <<"\n">>,
               <<TICK, TICK, TICK, "J", "S", "O", "N">>}
JsonTexts == {<<"{", KEY, "7", "}">>,
              <<"{", KEY, "{", "}", ",", KEY, "4", "2", "}">>,
              <<"{", KEY, QUOTE, TICK, TICK, TICK, QUOTE, "}">>}
CloseFences == {<<>>, <<"\n">> \o Fence}
Trails == {<<>>, <<"\n", "bye">>, <<"{", "done", "}">>, <<"j", "s", "o", "n">>}

Wrap(lead, open, json, close, trail) == lead \o open \o json \o close \o trail

WrappedTexts ==
    {Wrap(lead, open, json, close, trail) :
        lead \in Leads, open \in OpenFences, json \in JsonTexts,
        close \in CloseFences, trail \in Trails}

Chunks == {[uri |-> "a", title |-> "A"], [uri |-> "a", title |-> "A2"],
           [uri |-> "b", title |-> ""], [uri |-> "", title |-> ""]}

RECURSIVE SeqsUpTo(_, _)
SeqsUpTo(S, n) ==
    IF n = 0 THEN {<<>>}
    ELSE LET shorter == SeqsUpTo(S, n - 1)
         IN shorter \cup {Append(q, x) : q \in shorter, x \in S}

\* texts in which no '{' comes before a '}': other JSON values, prose,
\* braces the wrong way round
BracelessTexts ==
    {<<"4", "2">>, <<"0">>, <<"n", "u", "l", "l">>, <<QUOTE, QUOTE>>,
     <<QUOTE, "o", "k", QUOTE>>, FenceJson \o <<"\n", "7", "\n">> \o Fence,
     <<"sorry">>, <<"}", "{">>}

RichReplies ==
    {Reply(Some(text), null) : text \in WrappedTexts}
    \cup {Reply(Some(ObjectText), Some(chunks)) : chunks \in SeqsUpTo(Chunks, MaxChunks)}
    \cup {Reply(Some(text), null) : text \in BracelessTexts}

NextResponse ==
    \/ \E v \in {<<"a">>} : setDocumentText(v)
    \/ \E b \in BOOLEAN : setUseWebSearch(b)
    \/ handleAnalyze
    \/ \E k \in 1..MaxCalls, reply \in RichReplies : handleAnalyzeResume(k, reply)
    \/ handleReset

SpecResponse == Init /\ [][NextResponse]_vars

\* A document upload beside an analysis: the upload button stays enabled
\* while an analysis is in flight.
NextRace ==
    \/ \E v \in {<<"a">>} : setDocumentText(v)
    \/ \E b \in BOOLEAN : setUseWebSearch(b)
    \/ handleAnalyze
    \/ \E k \in 1..MaxCalls, reply \in {Reply(Some(ObjectText), null)} :
          handleAnalyzeResume(k, reply)
    \/ handleReset
    \/ \E file \in Files : handleFileUpload(file)
    \/ \E k \in 1..MaxUploads : handleFileUploadResume(k)

SpecRace == Init /\ [][NextRace]_vars

\* The result view on every risk score the prompt allows: the model answers
\* with an object whose overall_plagiarism_risk is a number from 0 to 100.
Scores == 0..100
ScoreText(n) == <<"{", KEY>> \o toString(n) \o <<"}">>
ScoreReplies == {Reply(Some(ScoreText(n)), null) : n \in Scores}

NextView ==
    \/ \E v \in {<<"a">>} : setDocumentText(v)
    \/ \E b \in BOOLEAN : setUseWebSearch(b)
    \/ handleAnalyze
    \/ \E k \in 1..MaxCalls, reply \in ScoreReplies : handleAnalyzeResume(k, reply)
    \/ handleReset

SpecView == Init /\ [][NextView]_vars

-----------------------------------------------------------------------------
(* The claims.                                                             *)

Blank(text) == \A i \in 1..Len(text) : IsWhiteSpace(text[i])
AnalyzeStep == last'.op = "handleAnalyze"

\* C1: an analyze request made while the document text is empty or white
\* space only makes no call to the analysis client, sets an error message and
\* does not enter analyzing, whatever the references and the web-search flag.
C1_EmptyDocumentRejected ==
    [][(AnalyzeStep /\ Blank(documentText))
         => (calls' = calls /\ error' # null /\ ~isAnalyzing')]_vars

C1_Witness ==
    /\ last.op = "handleAnalyze"
    /\ documentText = <<" ">>
    /\ useWebSearch
    /\ \E i \in 1..Len(references) : ~Blank(references[i].text)
    /\ calls = <<>>
    /\ error = Some("Please enter the document text.")

\* C2: an analyze request with document text that is not blank calls the
\* analysis client if and only if some reference has text that is not blank
\* or web search is enabled; otherwise it sets a message and calls nothing.
C2_CallIffSource ==
    [][(AnalyzeStep /\ ~Blank(documentText))
         => IF (\E i \in 1..Len(references) : ~Blank(references[i].text))
               \/ useWebSearch
            THEN /\ Len(calls') = Len(calls) + 1
                 /\ calls'[Len(calls')].documentText = documentText
                 /\ isAnalyzing'
            ELSE /\ calls' = calls
                 /\ error' # null
                 /\ ~isAnalyzing']_vars

C2_Witness ==
    /\ last.op = "handleAnalyze"
    /\ references = <<>>
    /\ useWebSearch
    /\ Len(calls) = 1
    /\ isAnalyzing

\* C3: at most one analysis call is pending in every reachable state.
C3_OneAnalysisInFlight == Len(calls) <= 1

C3_Witness ==
    /\ Len(calls) = 1
    /\ isAnalyzing
    /\ last.op = "setDocumentText"
    /\ documentText # calls[1].documentText

\* C4: at most one file read, of the document or of a reference, is pending
\* in every reachable state.
C4_OneFileOperation == Len(docUploads) + Len(refUploads) <= 1

\* C5: when a reference's file read completes, nothing but that reference's
\* text differs from the list as it was just before: no edit made while the
\* read was pending is undone.
C5_NoEditLost ==
    [][(last'.op = "refHandleFileUploadResume")
         => /\ Len(references') = Len(references)
            /\ \A i \in 1..Len(references) :
                   /\ i # last'.index => references'[i] = references[i]
                   /\ references'[i].id = references[i].id
                   /\ references'[i].sourceType = references[i].sourceType
                   /\ references'[i].isExpanded = references[i].isExpanded]_vars

\* C6: with web search on and grounding chunks present, webSources is the
\* chunks with a uri, as {uri, title} with the title falling back to the uri,
\* with the first occurrence of each uri kept, in first-seen order.
RECURSIVE KeepFirst(_, _)
KeepFirst(seen, sources) ==
    IF sources = <<>> THEN <<>>
    ELSE IF Head(sources).uri \in seen THEN KeepFirst(seen, Tail(sources))
    ELSE <<Head(sources)>> \o KeepFirst(seen \cup {Head(sources).uri}, Tail(sources))

RECURSIVE WithUri(_)
WithUri(chunks) ==
    IF chunks = <<>> THEN <<>>
    ELSE IF Head(chunks).uri = "" THEN WithUri(Tail(chunks))
    ELSE <<[uri |-> Head(chunks).uri,
            title |-> IF Head(chunks).title = "" THEN Head(chunks).uri
                      ELSE Head(chunks).title]>> \o WithUri(Tail(chunks))

GroundedReply ==
    /\ last.op = "handleAnalyzeResume"
    /\ last.call.request # null
    /\ last.call.enableWebSearch
    /\ last.reply.kind = "response"
    /\ last.reply.chunks # null

C6_FirstOccurrenceKept ==
    GroundedReply
      => /\ last.ok
         /\ result # null
         /\ result[1].webSources = KeepFirst({}, WithUri(last.reply.chunks[1]))

\* C7: for a reply that is a JSON object wrapped in code fences and prose,
\* the cleanup yields the text of the JSON object, which is then the result.
ReplyIs(text) ==
    /\ last.op = "handleAnalyzeResume"
    /\ last.call.request # null
    /\ last.reply.kind = "response"
    /\ last.reply.text = Some(text)

ResultIs(json) == last.ok /\ result # null /\ result[1].text = json

C7_AnyWrapping ==
    \A lead \in Leads, open \in OpenFences, json \in JsonTexts,
       close \in CloseFences, trail \in Trails :
        ReplyIs(Wrap(lead, open, json, close, trail)) => ResultIs(json)

\* C7 as amended: the same, for prose before the object that holds no '{',
\* prose after it that holds no '}', and an object whose text holds no fence.
Holds(text, c) == \E i \in 1..Len(text) : text[i] = c
HoldsFence(text) == \E i \in 1..(Len(text) - 2) : SubSeq(text, i, i + 2) = <<TICK, TICK, TICK>>

C7_PlainWrapping ==
    \A lead \in Leads, open \in OpenFences, json \in JsonTexts,
       close \in CloseFences, trail \in Trails :
        (~Holds(lead, "{") /\ ~Holds(trail, "}") /\ ~HoldsFence(json))
          => (ReplyIs(Wrap(lead, open, json, close, trail)) => ResultIs(json))

C7_Witness ==
    LET json == <<"{", KEY, "{", "}", ",", KEY, "4", "2", "}">>
    IN /\ ReplyIs(Wrap(<<"Sure!", " ">>, FenceJson \o <<"\n">>, json,
                       <<"\n">> \o Fence, <<"\n", "bye">>))
       /\ ResultIs(json)

\* C8: add() appends one record, with id REF- and the count plus one in three
\* digits, empty text and isExpanded true, and keeps every record there was.
ThreeDigits(n) == <<Digit((n \div 100) % 10), Digit((n \div 10) % 10), Digit(n % 10)>>

C8_AddAppends ==
    [][(last'.op = "addReference")
         => LET n == Len(references)
            IN /\ Len(references') = n + 1
               /\ \A i \in 1..n : references'[i] = references[i]
               /\ references'[n + 1].id = <<"R", "E", "F", "-">> \o ThreeDigits(n + 1)
               /\ references'[n + 1].text = <<>>
               /\ references'[n + 1].isExpanded = TRUE]_vars

C8_Witness ==
    /\ last.op = "addReference"
    /\ Len(references) = 2
    /\ references[1].id = <<"X">>
    /\ ~references[1].isExpanded
    /\ references[2].id = <<"R", "E", "F", "-", "0", "0", "2">>

\* C9: update(index, field, value) changes the named field of the record at
\* the index and nothing else; toggleExpand(index) flips isExpanded of that
\* record and changes nothing else.
Fields == {"id", "sourceType", "text", "isExpanded"}

OnlyFieldChanged(index, field) ==
    /\ Len(references') = Len(references)
    /\ \A i \in 1..Len(references) : i # index => references'[i] = references[i]
    /\ \A f \in Fields \ {field} : references'[index][f] = references[index][f]

C9_UpdateFrame ==
    [][/\ (last'.op = "updateReference")
            => /\ OnlyFieldChanged(last'.index, last'.field)
               /\ references'[last'.index][last'.field] = last'.value
       /\ (last'.op = "toggleExpand")
            => /\ OnlyFieldChanged(last'.index, "isExpanded")
               /\ references'[last'.index].isExpanded
                      = ~references[last'.index].isExpanded]_vars

C9_Witness ==
    /\ last.op = "updateReference"
    /\ last.field = "sourceType"
    /\ last.index = 2
    /\ Len(references) = 2
    /\ references[2].sourceType = "book"
    /\ references[2].text = <<"a">>
    /\ references[1].id = <<"X">>

\* C10: reset clears the result and the error, leaves the controller in input
\* mode and not analyzing, and keeps the document text, the document type,
\* the references and the web-search flag.
C10_ResetFrame ==
    [][(last'.op = "handleReset")
         => /\ ResultView
            /\ result' = null
            /\ error' = null
            /\ InputView'
            /\ ~isAnalyzing'
            /\ UNCHANGED <<documentText, documentType, references, useWebSearch>>]_vars

C10_Witness ==
    /\ last.op = "handleReset"
    /\ result = null
    /\ documentText = <<"a">>
    /\ documentType = "Thesis"
    /\ Len(references) = 2
    /\ useWebSearch

\* C11: when the analysis client fails for an accepted request (no API key,
\* no text in the response, text that is not JSON, a rejected call), the
\* controller stores a non-empty error message, holds no result and clears
\* the analyzing flag; the request is not sent again, and a call made
\* without an API key never carried a request to the model.
FailedAnalysis == last.op = "handleAnalyzeResume" /\ ~last.ok
C11_FailureSurfaced ==
    [][(last'.op = "handleAnalyzeResume" /\ ~last'.ok)
         => /\ error' # null /\ error'[1] # ""
            /\ result' = null
            /\ ~isAnalyzing'
            /\ Len(calls') = Len(calls) - 1
            /\ (last'.call.request = null) = ~apiKey
            /\ (last'.call.request = null
                   => error' = Some("API Key is missing"))]_vars
C11_Witness ==
    /\ FailedAnalysis
    /\ last.reply = Rejected("")
    /\ last.call.request # null
    /\ error = Some("An unexpected error occurred during analysis.")
    /\ result = null
    /\ ~isAnalyzing

\* C12: the config of every request sent to the model enables exactly one
\* mode: with web search the search tool is set and the JSON response type
\* is not; without it the JSON response type is set and there is no tool.
C12_ExactlyOneMode ==
    \A i \in DOMAIN calls :
        calls[i].request # null =>
            LET config == calls[i].request[1]
            IN /\ (config.tools # null) # (config.responseMimeType # null)
               /\ calls[i].enableWebSearch
                    => config.tools = Some("googleSearch")
               /\ ~calls[i].enableWebSearch
                    => config.responseMimeType = Some("application/json")
C12_Witness ==
    \E i \in DOMAIN calls :
        /\ calls[i].enableWebSearch
        /\ calls[i].request # null
        /\ calls[i].request[1].tools = Some("googleSearch")
        /\ calls[i].request[1].responseMimeType = null

\* C13: for every integer risk score from 0 to 100 the score text and the
\* card show the tier red from 80, orange from 50 to 79, yellow from 20 to
\* 49 and green below 20 (so 19 is green, 20 and 49 yellow, 50 and 79
\* orange, 80 red).
Tier(n) ==
    IF n >= 80 THEN "red" ELSE IF n >= 50 THEN "orange"
    ELSE IF n >= 20 THEN "yellow" ELSE "green"
TextClass(tier) ==
    CASE tier = "red" -> "text-red-600" [] tier = "orange" -> "text-orange-600"
      [] tier = "yellow" -> "text-yellow-600" [] tier = "green" -> "text-green-600"
CardClass(tier) ==
    CASE tier = "red" -> "bg-red-50 border-red-200"
      [] tier = "orange" -> "bg-orange-50 border-orange-200"
      [] tier = "yellow" -> "bg-yellow-50 border-yellow-200"
      [] tier = "green" -> "bg-green-50 border-green-200"
Shows(n) == result = Some([kind |-> "object", text |-> ScoreText(n)])
C13_ColourTiers ==
    \A n \in Scores :
        Shows(n) => /\ view # null
                    /\ view[1].score = TextClass(Tier(n))
                    /\ view[1].card = CardClass(Tier(n))
C13_Witness ==
    /\ Shows(20)
    /\ view # null
    /\ view[1].score = "text-yellow-600"
    /\ view[1].card = "bg-yellow-50 border-yellow-200"

\* C14: when the model's text, its fence markers removed, holds no '{' with
\* a '}' after it, the whole text is parsed and the analysis fails: no
\* result reaches the controller and an error message is stored.
NoBracePair(text) ==
    \/ \A i \in DOMAIN text : text[i] # "{"
    \/ \A j \in DOMAIN text : text[j] # "}"
    \/ \A i, j \in DOMAIN text : (text[i] = "{" /\ text[j] = "}") => j < i
Answered ==
    /\ last.op = "handleAnalyzeResume"
    /\ last.call.request # null
    /\ last.reply.kind = "response"
    /\ last.reply.text # null
C14_BracelessFails ==
    (Answered /\ NoBracePair(stripFences(last.reply.text[1])))
        => (~last.ok /\ result = null /\ error # null)

\* C15: choosing a document file sets the processing flag; when the read
\* succeeds the document text becomes the file's text, when it fails the
\* document text is unchanged and an error message is stored; either way
\* the processing flag is cleared and the file input is emptied, so that
\* the same file can be chosen again.
C15_UploadSettles ==
    [][/\ (last'.op = "handleFileUpload")
            => (isProcessingFile' /\ fileInputValue' = Some(last'.file))
       /\ (last'.op = "handleFileUploadResume")
            => /\ ~isProcessingFile'
               /\ fileInputValue' = <<>>
               /\ last'.ok => documentText' = last'.file.content
               /\ ~last'.ok => /\ documentText' = documentText
                               /\ error' # null
                               /\ error'[1] # ""]_vars
C15_Witness ==
    /\ last.op = "handleFileUploadResume"
    /\ ~last.ok
    /\ last.file = CorruptPdf
    /\ documentText = <<"a">>
    /\ error # null
    /\ ~isProcessingFile
    /\ fileInputValue = <<>>

\* C16: when the model call of an accepted request completes or fails, the
\* controller leaves analyzing: on success the parsed result is stored and
\* the result view is shown, on failure an error message is stored and no
\* result; it never ends with neither a result nor an error.
C16_RequestSettles ==
    (last.op = "handleAnalyzeResume")
        => /\ ~isAnalyzing
           /\ calls = <<>>
           /\ IF last.ok THEN result # null /\ ResultView /\ view # null
              ELSE error # null /\ result = null /\ InputView

\* C17: whenever a result is shown, no error is stored and the document
\* text is the text that was submitted for that analysis, however a
\* document upload (succeeding or failing) interleaves with the analysis:
\* so it is when the result arrives, and so it stays while it is shown.
C17_ResultMatchesSubmission ==
    [][/\ (last'.op = "handleAnalyzeResume" /\ ResultView')
            => /\ error' = null
               /\ documentText' = last'.call.documentText
       /\ (ResultView /\ ResultView')
            => /\ error' = error
               /\ documentText' = documentText]_vars

\* C18: for every integer risk score from 0 to 100 the gauge's fill colour
\* and the status icon denote the same tier as the score text's colour and
\* the card's background.
Tiers == {"red", "orange", "yellow", "green"}
TierOfText(class) == CHOOSE tier \in Tiers : TextClass(tier) = class
TierOfCard(class) == CHOOSE tier \in Tiers : CardClass(tier) = class
TierOfHex(hex) ==
    CASE hex = "#ef4444" -> "red" [] hex = "#f97316" -> "orange"
      [] hex = "#eab308" -> "yellow" [] hex = "#22c55e" -> "green"
C18_OneTier ==
    \A n \in Scores :
        Shows(n) =>
            /\ view # null
            /\ TierOfCard(view[1].card) = TierOfText(view[1].score)
            /\ TierOfHex(view[1].gaugeFill) = TierOfText(view[1].score)
            /\ TierOfText(view[1].status.className) = TierOfText(view[1].score)

====
